---- MODULE Spec2Model ----
(***************************************************************************)
(* The inventory service of the bookstore: the Stock Ledger (table items), *)
(* the Reservation Engine (InventoryRepo and the gRPC Server in front of   *)
(* it) and the Event Consumer.  The ledger is a PostgreSQL table accessed  *)
(* at READ COMMITTED: a transaction's writes are invisible to the others   *)
(* until it commits, and a row written or selected FOR UPDATE stays locked *)
(* by the transaction until it commits or rolls back.                      *)
(* Next to it stand the two event publishers: the inventory service's own  *)
(* (a bare channel.Publish) and the catalog service's publishWithRetry,    *)
(* which publishes on a channel in confirm mode and retries.               *)
(***************************************************************************)
EXTENDS Integers, Sequences, FiniteSets, TLC

\* ------------------------------------------------------------------ bounds
MaxCalls == 2      \* RPC calls made in one behaviour
NConc    == 3      \* concurrent single-unit reservations of one item
MaxLines == 2      \* line items of one request
MaxQty   == 2      \* largest quantity of a positive line
MaxStock == 2      \* largest quantity an item starts with
MaxMsgs  == 2      \* messages put on the consumer's queue in one behaviour
MaxDeliveries == 2 \* deliveries of one message

\* ------------------------------------------------------------ value sets
ItemIDs == {"BOOK-001", "BOOK-002"}
OrderIDs == {"order-1", "order-2"}
Calls == 1..NConc             \* the goroutines serving RPC calls
ConsumerTx == 0               \* the consumer's goroutine
TxIds == Calls \cup {ConsumerTx}

NoItem == [name |-> "", category |-> "", quantity |-> 0,
           price |-> [units |-> 0, hundredths |-> 0], present |-> FALSE]
NoTx == -1

\* db.ReservedItem
ReservedItem(id, q) == [ItemID |-> id, Quantity |-> q]

PositiveQtys == 1..MaxQty
UnitQtys == {1}
LinesOver(Q) ==
    UNION {[1..n -> {ReservedItem(i, q) : i \in ItemIDs, q \in Q}] : n \in 0..MaxLines}

NilErr == [kind |-> "nil", item |-> "", available |-> 0, requested |-> 0]
Err(k) == [kind |-> k, item |-> "", available |-> 0, requested |-> 0]
InsufficientErr(i, cur, req) ==
    [kind |-> "insufficient", item |-> i, available |-> cur, requested |-> req]

NoPending == [i \in ItemIDs |-> 0]
IdleTx == [kind |-> "none", order |-> "", lines |-> <<>>, idx |-> 0,
           phase |-> "idle", pending |-> NoPending, err |-> NilErr]
NoResp == [sent |-> FALSE, success |-> FALSE, status |-> "", message |-> NilErr,
           newQuantity |-> 0]
PublishedEvent(key, ref, prev, new, delta) ==
    [key |-> key, ref |-> ref, previous |-> prev, new |-> new, delta |-> delta]

\* a message on the inventory queue: routing key, body (parsable or not) and
\* the fields of the body the handlers read
Message(key, ok, id, order, lines, sku, title, category, cents) ==
    [key |-> key, ok |-> ok, event_id |-> id, order |-> order, lines |-> lines,
     sku |-> sku, title |-> title, category |-> category, cents |-> cents]
NoMsg == Message("", FALSE, 0, "", <<>>, "", "", "", 0)
NoDelivery == [msg |-> NoMsg, deliveries |-> 0, state |-> "none"]

VARIABLES
    items,      \* table items: item_id -> row (present = the row exists)
    items0,     \* the table as it was at start
    rowLock,    \* item_id -> the transaction holding the row's lock
    tx,         \* per goroutine: the repository call it is executing
    resp,       \* per RPC call: the response returned to the caller
    queue,      \* the broker's queue <service>.inventory.queue
    cur,        \* the delivery the consumer's loop is handling
    log,        \* every ack and nack the consumer issued, in order
    publisher,  \* "ok", or "nil" when NewPublisher failed at start
    published,  \* events the broker accepted from this service
    crashed,    \* the process died of a panic
    pub,        \* catalog service, per publishing goroutine: its publishWithRetry call
    amqp,       \* catalog service: the publisher's channel, in confirm mode
    exceeded,   \* the RPC calls whose deadline passed while they were running
    wire,       \* inventory service: the calls of Publisher.PublishEvent, in order
    books,      \* catalog service, table books: sku -> row (present = the row exists)
    bookCall    \* catalog service, per RPC call: the handler's position and result

ledgerVars == <<items, rowLock>>
consumerVars == <<queue, cur, log>>
inventoryVars ==
    <<items, items0, rowLock, tx, resp, queue, cur, log, publisher, published, crashed,
      exceeded, wire>>
\* what the inventory service's transactions and consumer do not touch
catalogVars == <<books, bookCall>>
elsewhere == <<pub, amqp, exceeded, wire, catalogVars>>
vars == <<items, items0, rowLock, tx, resp, queue, cur, log, publisher, published, crashed,
          pub, amqp, exceeded, wire, books, bookCall>>

\* ------------------------------------------------------------ the ledger
SeedItem(id, q) ==
    IF id = "BOOK-001"
    THEN [name |-> "The Great Gatsby", category |-> "Fiction", quantity |-> q,
          price |-> [units |-> 15, hundredths |-> 99], present |-> TRUE]
    ELSE [name |-> "To Kill a Mockingbird", category |-> "Fiction", quantity |-> q,
          price |-> [units |-> 14, hundredths |-> 99], present |-> TRUE]

\* what transaction t reads for row i: the committed value and its own writes
Current(t, i) == items[i].quantity + tx[t].pending[i]

\* the row lock is free for t (PostgreSQL makes the statement wait otherwise)
LockFree(t, i) == rowLock[i] \in {NoTx, t}

\* mutant: a plain SELECT, which locks nothing
LockedForUpdate_PlainSelect(t, i) == rowLock

\* SELECT ... FOR UPDATE locks the row it returns
LockedForUpdate(t, i) == [rowLock EXCEPT ![i] = t]

\* UPDATE locks the row it writes, if there is one
LockedByUpdate(t, i) == [rowLock EXCEPT ![i] = IF items[i].present THEN t ELSE @]

Unlocked(t) == [i \in ItemIDs |-> IF rowLock[i] = t THEN NoTx ELSE rowLock[i]]

\* mutant: the commit also empties the rows the transaction did not write
Committed_ClearsOthers(t) ==
    [i \in ItemIDs |->
        IF items[i].present
        THEN [items[i] EXCEPT !.quantity = IF tx[t].pending[i] = 0 THEN 0
                                           ELSE @ + tx[t].pending[i]]
        ELSE items[i]]

\* COMMIT: the transaction's writes become the committed rows
Committed(t) ==
    [i \in ItemIDs |->
        IF items[i].present
        THEN [items[i] EXCEPT !.quantity = @ + tx[t].pending[i]]
        ELSE items[i]]

\* mutant: the statements ran outside the transaction, a rollback keeps them
RolledBack_KeepsWrites(t) == Committed(t)

\* ROLLBACK: the transaction's writes are dropped
RolledBack(t) == items

\* mutant: UPDATE ... WHERE quantity > 0, which skips a row that sold out
Written_SkipsSoldOut(t, i, d) ==
    [tx[t].pending EXCEPT ![i] =
        IF items[i].present /\ (d < 0 \/ items[i].quantity + @ > 0) THEN @ + d ELSE @]

\* the pending writes of t after UPDATE ... quantity = quantity + d on row i
Written(t, i, d) ==
    [tx[t].pending EXCEPT ![i] = IF items[i].present THEN @ + d ELSE @]

Finished(t, e) ==
    [tx[t] EXCEPT !.phase = "done", !.pending = NoPending, !.err = e]

\* ------------------------------------------------------- the consumer's acks
\* mutant: every nack puts the message back on the queue
Settle_AlwaysRequeues(outcome) ==
    /\ cur' = [cur EXCEPT !.state = outcome]
    /\ log' = Append(log, [msg |-> cur.msg, outcome |-> outcome])
    /\ queue' = IF outcome # "acked"
                THEN <<[msg |-> cur.msg, deliveries |-> cur.deliveries]>> \o queue
                ELSE queue

\* msg.Ack(false), msg.Nack(false, true), msg.Nack(false, false)
Settle(outcome) ==
    /\ cur' = [cur EXCEPT !.state = outcome]
    /\ log' = Append(log, [msg |-> cur.msg, outcome |-> outcome])
    /\ queue' = IF outcome = "nacked_requeue"
                THEN <<[msg |-> cur.msg, deliveries |-> cur.deliveries]>> \o queue
                ELSE queue

\* ------------------------------------------- Server.ReserveStock/ReleaseStock
\* mutant: the repository's error is returned as a gRPC status
StockResponse_StatusError(e) ==
    [sent |-> TRUE, success |-> (e.kind = "nil"),
     status |-> IF e.kind = "nil" THEN "OK" ELSE "Internal", message |-> NilErr,
     newQuantity |-> 0]

\* the response the handler builds from the repository's error
StockResponse(e) ==
    [sent |-> TRUE, success |-> (e.kind = "nil"), status |-> "OK", message |-> e,
     newQuantity |-> 0]

\* Publisher.PublishEvent behind the handler's nil check
PublishedWith(ev, sentOK) ==
    IF publisher = "ok" /\ sentOK THEN published \cup {ev} ELSE published

StockEventKey(kind) ==
    IF kind = "reserve" THEN "inventory.stock_reserved" ELSE "inventory.stock_released"

\* mutant: the handler reports the publisher's error to the caller
Returns_FailsOnPublish(t, e, sentOK) ==
    IF t \in Calls
    THEN /\ resp' = [resp EXCEPT ![t] =
                       StockResponse(IF e.kind = "nil" /\ ~sentOK THEN Err("publish") ELSE e)]
         /\ published' =
              IF e.kind = "nil"
              THEN PublishedWith(PublishedEvent(StockEventKey(tx[t].kind), tx[t].order, 0, 0, 0),
                                 sentOK)
              ELSE published
         /\ UNCHANGED consumerVars
    ELSE /\ Settle(IF e.kind = "nil" THEN "acked" ELSE "nacked_requeue")
         /\ UNCHANGED <<resp, published>>

\* mutant: the consumer acks whatever the repository returned
Returns_AcksFailure(t, e, sentOK) ==
    IF t \in Calls
    THEN /\ resp' = [resp EXCEPT ![t] = StockResponse(e)]
         /\ published' =
              IF e.kind = "nil"
              THEN PublishedWith(PublishedEvent(StockEventKey(tx[t].kind), tx[t].order, 0, 0, 0),
                                 sentOK)
              ELSE published
         /\ UNCHANGED consumerVars
    ELSE /\ Settle("acked")
         /\ UNCHANGED <<resp, published>>

\* what follows the repository call: in an RPC handler the response (and the
\* event, after a success), in the consumer the ack or nack
Returns(t, e, sentOK) ==
    IF t \in Calls
    THEN /\ resp' = [resp EXCEPT ![t] = StockResponse(e)]
         /\ published' =
              IF e.kind = "nil"
              THEN PublishedWith(PublishedEvent(StockEventKey(tx[t].kind), tx[t].order, 0, 0, 0),
                                 sentOK)
              ELSE published
         /\ UNCHANGED consumerVars
    ELSE /\ Settle(IF e.kind = "nil" THEN "acked" ELSE "nacked_requeue")
         /\ UNCHANGED <<resp, published>>

FirstPhase(kind, lines) ==
    IF lines = <<>> THEN "commit" ELSE IF kind = "reserve" THEN "select" ELSE "update"

\* r.db.Begin() of ReserveStock / ReleaseStock
Begun(kind, order, lines) ==
    [kind |-> kind, order |-> order, lines |-> lines, idx |-> 1,
     phase |-> FirstPhase(kind, lines), pending |-> NoPending, err |-> NilErr]

\* an RPC arrives: the handler copies the request's items and calls the repository
BeginCall(t, kind, order, lines) ==
    /\ ~crashed
    /\ t \in Calls
    /\ tx[t].phase = "idle"
    /\ \A u \in Calls : u < t => tx[u].phase # "idle"
    /\ tx' = [tx EXCEPT ![t] = Begun(kind, order, lines)]
    /\ UNCHANGED <<items, items0, rowLock, resp, consumerVars, publisher, elsewhere, published, crashed>>

\* SELECT quantity ... FOR UPDATE, and the comparison that follows it
ReserveSelect(t) ==
    /\ ~crashed
    /\ tx[t].kind = "reserve" /\ tx[t].phase = "select"
    /\ LET ri == tx[t].lines[tx[t].idx] IN
        IF ~items[ri.ItemID].present
        THEN \* sql.ErrNoRows: tx.Rollback(); return err
             /\ tx' = [tx EXCEPT ![t] = Finished(t, Err("notfound"))]
             /\ items' = RolledBack(t)
             /\ rowLock' = Unlocked(t)
             /\ Returns(t, Err("notfound"), FALSE)
        ELSE /\ LockFree(t, ri.ItemID)
             /\ IF Current(t, ri.ItemID) < ri.Quantity
                THEN LET e == InsufficientErr(ri.ItemID, Current(t, ri.ItemID), ri.Quantity) IN
                     /\ tx' = [tx EXCEPT ![t] = Finished(t, e)]
                     /\ items' = RolledBack(t)
                     /\ rowLock' = Unlocked(t)
                     /\ Returns(t, e, FALSE)
                ELSE /\ tx' = [tx EXCEPT ![t].phase = "update"]
                     /\ rowLock' = LockedForUpdate(t, ri.ItemID)
                     /\ UNCHANGED <<items, resp, consumerVars, published>>
    /\ UNCHANGED <<items0, publisher, elsewhere, crashed>>

NextPhase(t, kind) ==
    IF tx[t].idx = Len(tx[t].lines) THEN "commit"
    ELSE IF kind = "reserve" THEN "select" ELSE "update"

\* UPDATE items SET quantity = quantity - $1 WHERE item_id = $2
ReserveUpdate(t) ==
    /\ ~crashed
    /\ tx[t].kind = "reserve" /\ tx[t].phase = "update"
    /\ LET ri == tx[t].lines[tx[t].idx] IN
        /\ LockFree(t, ri.ItemID)
        /\ rowLock' = LockedByUpdate(t, ri.ItemID)
        /\ tx' = [tx EXCEPT ![t].pending = Written(t, ri.ItemID, 0 - ri.Quantity),
                            ![t].idx = @ + 1,
                            ![t].phase = NextPhase(t, "reserve")]
    /\ UNCHANGED <<items, items0, resp, consumerVars, publisher, elsewhere, published, crashed>>

\* UPDATE items SET quantity = quantity + $1 WHERE item_id = $2
ReleaseUpdate(t) ==
    /\ ~crashed
    /\ tx[t].kind = "release" /\ tx[t].phase = "update"
    /\ LET ri == tx[t].lines[tx[t].idx] IN
        /\ LockFree(t, ri.ItemID)
        /\ rowLock' = LockedByUpdate(t, ri.ItemID)
        /\ tx' = [tx EXCEPT ![t].pending = Written(t, ri.ItemID, ri.Quantity),
                            ![t].idx = @ + 1,
                            ![t].phase = NextPhase(t, "release")]
    /\ UNCHANGED <<items, items0, resp, consumerVars, publisher, elsewhere, published, crashed>>

\* tx.Commit() succeeds
Commit(t) ==
    /\ ~crashed
    /\ tx[t].kind \in {"reserve", "release"} /\ tx[t].phase = "commit"
    /\ items' = Committed(t)
    /\ rowLock' = Unlocked(t)
    /\ tx' = [tx EXCEPT ![t] = Finished(t, NilErr)]
    /\ \E sentOK \in BOOLEAN : Returns(t, NilErr, sentOK)
    /\ UNCHANGED <<items0, publisher, elsewhere, crashed>>

\* a statement or the commit fails in the database (connection lost, deadlock
\* victim, ...): the transaction is rolled back and the error returned
StatementFails(t) ==
    /\ ~crashed
    /\ tx[t].kind \in {"reserve", "release"}
    /\ tx[t].phase \in {"select", "update", "commit"}
    /\ items' = RolledBack(t)
    /\ rowLock' = Unlocked(t)
    /\ tx' = [tx EXCEPT ![t] = Finished(t, Err("dberror"))]
    /\ Returns(t, Err("dberror"), FALSE)
    /\ UNCHANGED <<items0, publisher, elsewhere, crashed>>

\* the deadline the caller gave the RPC passes: gRPC cancels the handler's
\* ctx, which ReserveStock and ReleaseStock receive and never read (the
\* repository is called without it and begins its transaction with r.db.Begin())
DeadlineExceeded(t) ==
    /\ ~crashed
    /\ t \in Calls
    /\ tx[t].kind \in {"reserve", "release"}
    /\ tx[t].phase \in {"select", "update", "commit"}
    /\ t \notin exceeded
    /\ exceeded' = exceeded \cup {t}
    /\ UNCHANGED <<items, items0, rowLock, tx, resp, consumerVars, publisher, published,
                   crashed, pub, amqp, wire, catalogVars>>

\* ------------------------------------------------------- Server.UpdateStock
\* mutant: the handler computes the quantity from one it read before, SET quantity = $1
AdjustedQuantity_FromStaleRead(q, delta) == delta

\* UPDATE items SET quantity = quantity + $1 WHERE item_id = $2 RETURNING quantity
AdjustedQuantity(q, delta) == q + delta

UpdateStock(t, item, delta) ==
    /\ ~crashed
    /\ t \in Calls
    /\ tx[t].phase = "idle"
    /\ \A u \in Calls : u < t => tx[u].phase # "idle"
    /\ LET call == [Begun("update", "", <<ReservedItem(item, delta)>>) EXCEPT !.phase = "done"] IN
       IF items[item].present
       THEN LET new == AdjustedQuantity(items[item].quantity, delta) IN
            /\ LockFree(t, item)
            /\ items' = [items EXCEPT ![item].quantity = new]
            /\ tx' = [tx EXCEPT ![t] = call]
            /\ resp' = [resp EXCEPT ![t] = [sent |-> TRUE, success |-> TRUE, status |-> "OK",
                                            message |-> NilErr, newQuantity |-> new]]
            /\ \E sentOK \in BOOLEAN :
                 published' = PublishedWith(
                     PublishedEvent("inventory.stock_updated", item, new - delta, new, delta),
                     sentOK)
       ELSE \* sql.ErrNoRows: codes.Internal
            /\ tx' = [tx EXCEPT ![t] = [call EXCEPT !.err = Err("notfound")]]
            /\ resp' = [resp EXCEPT ![t] = [sent |-> TRUE, success |-> FALSE,
                                            status |-> "Internal",
                                            message |-> Err("notfound"), newQuantity |-> 0]]
            /\ UNCHANGED <<items, published>>
    /\ UNCHANGED <<items0, rowLock, consumerVars, publisher, elsewhere, crashed>>

\* the statement fails in the database: codes.Internal
UpdateStockFails(t, item, delta) ==
    /\ ~crashed
    /\ t \in Calls
    /\ tx[t].phase = "idle"
    /\ \A u \in Calls : u < t => tx[u].phase # "idle"
    /\ tx' = [tx EXCEPT ![t] =
                [Begun("update", "", <<ReservedItem(item, delta)>>)
                    EXCEPT !.phase = "done", !.err = Err("dberror")]]
    /\ resp' = [resp EXCEPT ![t] = [sent |-> TRUE, success |-> FALSE, status |-> "Internal",
                                    message |-> Err("dberror"), newQuantity |-> 0]]
    /\ UNCHANGED <<items, items0, rowLock, consumerVars, publisher, elsewhere, published, crashed>>

\* ------------------------------------------ Server.GetItem, CheckAvailability
\* InventoryRepo.GetItemByID: a plain SELECT, which waits for no lock and sees
\* the committed row; NoItem for sql.ErrNoRows
GetItemByID(itemID) == items[itemID]

\* an RPC that reads: it is over with the step that answers it
ReadCall(t, kind, itemID, requested, response) ==
    /\ ~crashed
    /\ t \in Calls
    /\ tx[t].phase = "idle"
    /\ \A u \in Calls : u < t => tx[u].phase # "idle"
    /\ tx' = [tx EXCEPT ![t] =
                [Begun(kind, "", <<ReservedItem(itemID, requested)>>) EXCEPT !.phase = "done"]]
    /\ resp' = [resp EXCEPT ![t] = response]
    /\ UNCHANGED <<items, items0, rowLock, consumerVars, publisher, elsewhere, published, crashed>>

\* Server.GetItem: the item, or codes.NotFound
GetItem(t, itemID) ==
    LET item == GetItemByID(itemID) IN
    ReadCall(t, "get", itemID, 0,
             IF item.present
             THEN [sent |-> TRUE, success |-> TRUE, status |-> "OK", message |-> NilErr,
                   newQuantity |-> item.quantity]
             ELSE [sent |-> TRUE, success |-> FALSE, status |-> "NotFound",
                   message |-> Err("notfound"), newQuantity |-> 0])

\* Server.CheckAvailability: Available, AvailableQuantity and Message
CheckAvailability(t, itemID, requested) ==
    LET item == GetItemByID(itemID) IN
    ReadCall(t, "check", itemID, requested,
             IF ~item.present
             THEN [sent |-> TRUE, success |-> FALSE, status |-> "OK",
                   message |-> Err("notfound"), newQuantity |-> 0]
             ELSE [sent |-> TRUE, success |-> (item.quantity >= requested), status |-> "OK",
                   message |-> IF item.quantity >= requested THEN NilErr
                               ELSE InsufficientErr(itemID, item.quantity, requested),
                   newQuantity |-> item.quantity])

\* ------------------------------------------------------------- the broker
KnownKeys == {"order.created", "order.cancelled", "catalog.created", "catalog.deleted"}
UnknownKey == "order.status.changed"
\* the books the catalog service announces: title, category, price in cents
Books == {[title |-> "The Great Gatsby", category |-> "Fiction", cents |-> 1599],
          [title |-> "Gatsby, annotated", category |-> "Classics", cents |-> 1250]}

RECURSIVE SettledCount(_)
\* the acks and discards among the first n entries of the log
SettledCount(n) ==
    IF n = 0 THEN 0
    ELSE SettledCount(n - 1) + (IF log[n].outcome = "nacked_requeue" THEN 0 ELSE 1)

\* the messages put on the queue so far: each is waiting, being handled,
\* acked or discarded
NumSent ==
    Len(queue) + SettledCount(Len(log)) + (IF cur.state = "processing" THEN 1 ELSE 0)

SentMsgs ==
    {queue[k].msg : k \in 1..Len(queue)} \cup {log[k].msg : k \in 1..Len(log)}
        \cup (IF cur.state = "processing" THEN {cur.msg} ELSE {})

\* the publisher of an event gives it a fresh event_id
NewEventID == Cardinality({m.event_id : m \in SentMsgs}) + 1

Enqueue(m) ==
    /\ ~crashed
    /\ NumSent < MaxMsgs
    /\ queue' = Append(queue, [msg |-> m, deliveries |-> 0])
    /\ UNCHANGED <<items, items0, rowLock, tx, resp, cur, log, publisher, elsewhere, published, crashed>>

\* the order service publishes order.created or order.cancelled
PublishOrderEvent(key, order, lines) ==
    Enqueue(Message(key, TRUE, NewEventID, order, lines, "", "", "", 0))

\* the catalog service publishes catalog.created
PublishCatalogCreated(sku, title, category, cents) ==
    Enqueue(Message("catalog.created", TRUE, NewEventID, "", <<>>, sku, title, category, cents))

\* the catalog service publishes catalog.deleted
PublishCatalogDeleted(sku) ==
    Enqueue(Message("catalog.deleted", TRUE, NewEventID, "", <<>>, sku, "", "", 0))

\* a message whose body json.Unmarshal rejects
PublishMalformed(key) ==
    Enqueue(Message(key, FALSE, NewEventID, "", <<>>, "", "", "", 0))

\* a message with a routing key the switch of handleMessage does not list
PublishUnknown ==
    Enqueue(Message(UnknownKey, TRUE, NewEventID, "", <<>>, "", "", "", 0))

\* at-least-once publication: an event already sent is sent again
PublishDuplicate(m) ==
    /\ m \in SentMsgs
    /\ Enqueue(m)

\* ------------------------------------------------------------ the consumer
\* for msg := range msgs: the next delivery, once the previous call returned
\* mutant: a second worker takes the next message while one is being handled
Deliver_Concurrently ==
    /\ ~crashed
    /\ queue # <<>>
    /\ Head(queue).deliveries < MaxDeliveries
    /\ cur' = [msg |-> Head(queue).msg, deliveries |-> Head(queue).deliveries + 1,
               state |-> "processing"]
    /\ queue' = Tail(queue)
    /\ tx' = [tx EXCEPT ![ConsumerTx] = IdleTx]
    /\ UNCHANGED <<items, items0, rowLock, resp, log, publisher, elsewhere, published, crashed>>

Deliver ==
    /\ ~crashed
    /\ cur.state # "processing"
    /\ queue # <<>>
    /\ Head(queue).deliveries < MaxDeliveries
    /\ cur' = [msg |-> Head(queue).msg, deliveries |-> Head(queue).deliveries + 1,
               state |-> "processing"]
    /\ queue' = Tail(queue)
    /\ tx' = [tx EXCEPT ![ConsumerTx] = IdleTx]
    /\ UNCHANGED <<items, items0, rowLock, resp, log, publisher, elsewhere, published, crashed>>

Handling(key) ==
    /\ ~crashed
    /\ cur.state = "processing"
    /\ cur.msg.key = key
    /\ tx[ConsumerTx].phase = "idle"

\* handleMessage, default branch
HandleUnknown ==
    /\ ~crashed
    /\ cur.state = "processing"
    /\ cur.msg.key \notin KnownKeys
    /\ Settle("nacked_discard")
    /\ UNCHANGED <<items, items0, rowLock, tx, resp, publisher, elsewhere, published, crashed>>

\* handleOrderCreated / handleOrderCancelled up to the repository call
HandleOrderEvent(key, kind) ==
    /\ Handling(key)
    /\ IF ~cur.msg.ok
       THEN /\ Settle("nacked_discard")
            /\ UNCHANGED tx
       ELSE /\ tx' = [tx EXCEPT ![ConsumerTx] = Begun(kind, cur.msg.order, cur.msg.lines)]
            /\ UNCHANGED consumerVars
    /\ UNCHANGED <<items, items0, rowLock, resp, publisher, elsewhere, published, crashed>>

HandleOrderCreated == HandleOrderEvent("order.created", "reserve")
HandleOrderCancelled == HandleOrderEvent("order.cancelled", "release")

\* float64(event.Payload.Price) / 100.0, stored in a DECIMAL(10,2) column
PriceInDollars(cents) == [units |-> cents \div 100, hundredths |-> cents % 100]

\* mutant: INSERT ... ON CONFLICT (item_id) DO UPDATE, as the seed script does
CreateItem_Upserts(item) ==
    [items EXCEPT ![item.ItemID] =
        [name |-> item.Name, category |-> item.Category, quantity |-> item.Quantity,
         price |-> item.Price, present |-> TRUE]]

\* INSERT ... ON CONFLICT (item_id) DO NOTHING
CreateItem(item) ==
    [items EXCEPT ![item.ItemID] =
        IF @.present THEN @
        ELSE [name |-> item.Name, category |-> item.Category, quantity |-> item.Quantity,
              price |-> item.Price, present |-> TRUE]]

\* DELETE FROM items WHERE item_id = $1
DeleteItem(itemID) == [items EXCEPT ![itemID] = NoItem]

\* a method of the nil *Publisher reads p.channel: the goroutine panics and
\* the process exits; the database rolls back what was in flight
Panic ==
    /\ crashed' = TRUE
    /\ rowLock' = [i \in ItemIDs |-> NoTx]
    /\ UNCHANGED <<consumerVars, published>>

\* c.publisher.PublishItemCreated / PublishItemDeleted, then msg.Ack(false)
PublishThenAck(ev) ==
    IF publisher = "nil"
    THEN Panic
    ELSE /\ \E sentOK \in BOOLEAN : published' = PublishedWith(ev, sentOK)
         /\ Settle("acked")
         /\ UNCHANGED <<rowLock, crashed>>

\* handleCatalogCreated
HandleCatalogCreated ==
    /\ Handling("catalog.created")
    /\ IF ~cur.msg.ok
       THEN /\ Settle("nacked_discard")
            /\ UNCHANGED <<items, rowLock, published, crashed>>
       ELSE /\ items' = CreateItem([ItemID |-> cur.msg.sku, Name |-> cur.msg.title,
                                    Category |-> cur.msg.category, Quantity |-> 0,
                                    Price |-> PriceInDollars(cur.msg.cents)])
            /\ PublishThenAck(PublishedEvent("inventory.created", cur.msg.sku, 0, 0, 0))
    /\ UNCHANGED <<items0, tx, resp, publisher, elsewhere>>

\* handleCatalogDeleted
HandleCatalogDeleted ==
    /\ Handling("catalog.deleted")
    /\ IF ~cur.msg.ok
       THEN /\ Settle("nacked_discard")
            /\ UNCHANGED <<items, rowLock, published, crashed>>
       ELSE IF ~items[cur.msg.sku].present
       THEN \* rowsAffected == 0: "item not found"
            /\ Settle("nacked_requeue")
            /\ UNCHANGED <<items, rowLock, published, crashed>>
       ELSE /\ LockFree(ConsumerTx, cur.msg.sku)
            /\ items' = DeleteItem(cur.msg.sku)
            /\ PublishThenAck(PublishedEvent("inventory.deleted", cur.msg.sku, 0, 0, 0))
    /\ UNCHANGED <<items0, tx, resp, publisher, elsewhere>>

\* CreateItem or DeleteItem returns a database error
HandleCatalogFails ==
    /\ ~crashed
    /\ cur.state = "processing"
    /\ cur.msg.key \in {"catalog.created", "catalog.deleted"}
    /\ cur.msg.ok
    /\ Settle("nacked_requeue")
    /\ UNCHANGED <<items, items0, rowLock, tx, resp, publisher, elsewhere, published, crashed>>

\* --------------------------------------- the inventory service's publisher
MaxPublishes == 2  \* calls of PublishEvent in one behaviour

InventoryKeys == {"inventory.stock_reserved", "inventory.stock_released",
                  "inventory.stock_updated", "inventory.created", "inventory.deleted"}

\* one call of PublishEvent: the routing key, the calls of channel.Publish it
\* made, the error it returned, whether the broker got the message and
\* whether the broker acknowledged it to the publisher
PublishCall(key, attempts, err, arrived, acked) ==
    [key |-> key, attempts |-> attempts, err |-> err, arrived |-> arrived, acked |-> acked]

\* Publisher.PublishEvent on the channel NewPublisher opened (never put into
\* confirm mode): one p.channel.Publish, whose error is returned as it is; a
\* nil error says the frames were written, the broker sends nothing back
PublishEvent(key) ==
    /\ publisher = "ok"
    /\ Len(wire) < MaxPublishes
    /\ \E written \in BOOLEAN, arrived \in BOOLEAN :
         /\ (arrived => written)
         /\ wire' = Append(wire, PublishCall(key, 1, ~written, arrived, FALSE))
    /\ UNCHANGED <<items, items0, rowLock, tx, resp, consumerVars, publisher, published,
                   crashed, pub, amqp, exceeded, catalogVars>>

\* ---------------------------------------- the catalog service's publisher
maxRetries == 3    \* const maxRetries
NPub == 2          \* goroutines publishing at the same time

\* CreateBook, UpdateBook and DeleteBook each start a goroutine that publishes
Publishings == 1..NPub

\* amqp.Confirmation
Confirmation(tag, ack) == [DeliveryTag |-> tag, Ack |-> ack]
NoConfirmation == Confirmation(0, FALSE)

\* a call of publishWithRetry: where it is, its loop variable attempt, the
\* listener and the delivery tag of the current attempt, lastErr, the value
\* returned and the confirmation it took for an acknowledgment
IdlePub == [pc |-> "idle", attempt |-> 0, sends |-> 0, confirms |-> 0, tag |-> 0,
            ctxDone |-> FALSE, lastErr |-> "", result |-> "", took |-> NoConfirmation]

\* the channel after channel.Confirm(false): publishings are numbered from 1,
\* the broker's confirmations are passed on in that order to every listener
\* registered with NotifyPublish
NewChannel == [published |-> 0, expecting |-> 1, listeners |-> <<>>,
               sending |-> NoConfirmation, to |-> 0, acked |-> {}]

\* make(chan amqp.Confirmation, 1)
ListenerCap == 1

\* return ctx.Err(), return nil, return fmt.Errorf("failed to publish ...")
Returned(c, result) == [c EXCEPT !.pc = "done", !.result = result]

\* the end of one iteration without an acknowledgment: attempt++ and the
\* loop's test
NextAttempt(c, e) ==
    IF c.attempt + 1 < maxRetries
    THEN [c EXCEPT !.attempt = @ + 1, !.lastErr = e, !.pc = "backoff"]
    ELSE Returned([c EXCEPT !.attempt = @ + 1, !.lastErr = e], "exhausted")

\* case confirm := <-confirms
Received(c, conf) ==
    IF conf.Ack THEN Returned([c EXCEPT !.took = conf], "nil")
    ELSE NextAttempt(c, "nack")

\* PublishBookCreated / PublishBookUpdated / PublishBookDeleted call
\* publishWithRetry; the first iteration does not back off
PublishBook(p) ==
    /\ pub[p].pc = "idle"
    /\ \A u \in Publishings : u < p => pub[u].pc # "idle"
    /\ pub' = [pub EXCEPT ![p].pc = "notify"]
    /\ UNCHANGED <<catalogVars, inventoryVars, amqp>>

\* the caller's context (10 s in the handlers) is done; a call blocked in the
\* select on the confirmation wakes up in the ctx.Done() case
Cancel(p) ==
    /\ pub[p].pc \notin {"idle", "done"}
    /\ ~pub[p].ctxDone
    /\ pub' = [pub EXCEPT ![p] =
                 IF @.pc = "confirmWait" THEN Returned([@ EXCEPT !.ctxDone = TRUE], "ctx")
                 ELSE [@ EXCEPT !.ctxDone = TRUE]]
    /\ UNCHANGED <<catalogVars, inventoryVars, amqp>>

\* mutant: time.Sleep(backoff)
AfterBackoff_Sleeps(c) == [c EXCEPT !.pc = "notify"]

\* select { case <-ctx.Done(): return ctx.Err(); case <-time.After(backoff): }
AfterBackoff(c) ==
    IF c.ctxDone THEN Returned(c, "ctx") ELSE [c EXCEPT !.pc = "notify"]

Backoff(p) ==
    /\ pub[p].pc = "backoff"
    /\ pub' = [pub EXCEPT ![p] = AfterBackoff(@)]
    /\ UNCHANGED <<catalogVars, inventoryVars, amqp>>

\* confirms := p.channel.NotifyPublish(make(chan amqp.Confirmation, 1)): the
\* new listener is appended to the channel's listeners (which waits for a
\* confirmation that is being passed on) and is never removed
NotifyPublish(p) ==
    /\ pub[p].pc = "notify"
    /\ amqp.sending = NoConfirmation
    /\ amqp' = [amqp EXCEPT !.listeners = Append(@, <<>>)]
    /\ pub' = [pub EXCEPT ![p].confirms = Len(amqp.listeners) + 1, ![p].pc = "send"]
    /\ UNCHANGED <<catalogVars, inventoryVars>>

\* p.channel.PublishWithContext: the publishing gets the next delivery tag,
\* or the send fails and the loop continues
Send(p) ==
    /\ pub[p].pc = "send"
    /\ \E sent \in BOOLEAN :
         IF sent
         THEN /\ amqp' = [amqp EXCEPT !.published = @ + 1]
              /\ pub' = [pub EXCEPT ![p].sends = @ + 1, ![p].tag = amqp.published + 1,
                                    ![p].pc = "confirm"]
         ELSE /\ pub' = [pub EXCEPT ![p] = NextAttempt([@ EXCEPT !.sends = @ + 1], "send")]
              /\ UNCHANGED amqp
    /\ UNCHANGED <<catalogVars, inventoryVars>>

\* the broker acks or nacks the oldest unconfirmed publishing
BrokerConfirms(ack) ==
    /\ amqp.sending = NoConfirmation
    /\ amqp.expecting <= amqp.published
    /\ amqp' = [amqp EXCEPT !.sending = Confirmation(amqp.expecting, ack),
                            !.to = 1,
                            !.expecting = @ + 1,
                            !.acked = IF ack THEN @ \cup {amqp.expecting} ELSE @]
    /\ UNCHANGED <<catalogVars, inventoryVars, pub>>

\* the calls blocked in the select on listener k
WaitingOn(k) == {p \in Publishings : pub[p].pc = "confirmWait" /\ pub[p].confirms = k}

\* the channel passes the confirmation on to its next listener: l <- confirmation,
\* which hands it to the call blocked on l, or buffers it, or waits for room
PassOn ==
    /\ amqp.sending # NoConfirmation
    /\ LET k == amqp.to
           more == IF k < Len(amqp.listeners)
                   THEN [amqp EXCEPT !.to = k + 1]
                   ELSE [amqp EXCEPT !.to = 0, !.sending = NoConfirmation]
       IN  IF WaitingOn(k) # {}
           THEN /\ pub' = [p \in Publishings |->
                             IF p \in WaitingOn(k) THEN Received(pub[p], amqp.sending)
                             ELSE pub[p]]
                /\ amqp' = more
           ELSE /\ Len(amqp.listeners[k]) < ListenerCap
                /\ amqp' = [more EXCEPT !.listeners[k] = Append(@, amqp.sending)]
                /\ UNCHANGED pub
    /\ UNCHANGED <<catalogVars, inventoryVars>>

\* select { case confirm := <-confirms: ...; case <-ctx.Done(): ...;
\*          case <-time.After(5 * time.Second): ... } is entered: a case that
\* is ready is taken, one of them if several are, else the call blocks
AwaitConfirm(p) ==
    /\ pub[p].pc = "confirm"
    /\ LET l == amqp.listeners[pub[p].confirms] IN
        \/ /\ l # <<>>
           /\ pub' = [pub EXCEPT ![p] = Received(@, Head(l))]
           /\ amqp' = [amqp EXCEPT !.listeners[pub[p].confirms] = Tail(l)]
        \/ /\ pub[p].ctxDone
           /\ pub' = [pub EXCEPT ![p] = Returned(@, "ctx")]
           /\ UNCHANGED amqp
        \/ /\ l = <<>> /\ ~pub[p].ctxDone
           /\ pub' = [pub EXCEPT ![p].pc = "confirmWait"]
           /\ UNCHANGED amqp
    /\ UNCHANGED <<catalogVars, inventoryVars>>

\* case <-time.After(5 * time.Second): lastErr = "confirmation timeout"
ConfirmTimeout(p) ==
    /\ pub[p].pc = "confirmWait"
    /\ pub' = [pub EXCEPT ![p] = NextAttempt(@, "timeout")]
    /\ UNCHANGED <<catalogVars, inventoryVars, amqp>>

\* ------------------------------------------- the catalog service's books
MaxSKU == 2        \* highest number generateNextSKU reaches
NCat == 2          \* CreateBook and UpdateBook RPCs running at the same time
MaxMask == 2       \* longest update mask

CatalogCalls == 1..NCat

\* fmt.Sprintf("BOOK-%03d", n)
Sprintf(n) == <<"BOOK-001", "BOOK-002", "BOOK-003", "BOOK-004">>[n]

\* fmt.Sscanf(sku, "BOOK-%d", &lastNum)
Sscanf(sku) == CHOOSE n \in 1..4 : Sprintf(n) = sku

\* WHERE sku LIKE 'BOOK-%'
GeneratedSKUs == {Sprintf(n) : n \in 1..MaxSKU}

\* the primary keys the table is observed at
CatalogSKUs == GeneratedSKUs \cup {"TEST-002"}

\* the columns UpdateBook can write
BookFields == {"title", "author", "price", "currency", "category", "description", "active"}

\* db.Book (its SKU is the key of books); NoBook stands for no row
NoBook ==
    [present |-> FALSE, title |-> "", author |-> "", price |-> 0, currency |-> "",
     category |-> "", description |-> "", active |-> FALSE]

\* catalogpb.Book as a request carries it; isNil: the request has no book
\* message, hasPrice: the book has a Money message
ProtoBook(sku, title, author, hasPrice, amount, currency, active) ==
    [isNil |-> FALSE, sku |-> sku, title |-> title, author |-> author,
     hasPrice |-> hasPrice, amount |-> amount, currency |-> currency,
     category |-> "", description |-> "", active |-> active]
NilBook ==
    [isNil |-> TRUE, sku |-> "", title |-> "", author |-> "", hasPrice |-> FALSE,
     amount |-> 0, currency |-> "", category |-> "", description |-> "", active |-> FALSE]

\* protoToBook: the getters of a nil Money give 0 and ""
protoToBook(pb) ==
    [present |-> TRUE, title |-> pb.title, author |-> pb.author,
     price |-> IF pb.hasPrice THEN pb.amount ELSE 0,
     currency |-> IF pb.hasPrice THEN pb.currency ELSE "",
     category |-> pb.category, description |-> pb.description, active |-> pb.active]

\* validateBookForCreate: the error's message, "" for nil; the SKU is not looked at
validateBookForCreate(book) ==
    IF book.isNil THEN "book is required"
    ELSE IF book.title = "" THEN "title is required"
    ELSE IF book.author = "" THEN "author is required"
    ELSE IF ~book.hasPrice THEN "price is required"
    ELSE IF book.amount <= 0 THEN "price must be positive"
    ELSE IF book.currency = "" THEN "currency is required"
    ELSE ""

\* validateBook, which UpdateBook uses
validateBook(book) ==
    IF book.isNil THEN "book is required"
    ELSE IF book.sku = "" THEN "sku is required"
    ELSE validateBookForCreate(book)

\* a handler's state: pc is the statement it is at, given the SKU the request
\* carried, sku the one the repository works with, err what the repository
\* returned, code the gRPC status the handler returned
IdleCall ==
    [op |-> "none", pc |-> "idle", given |-> "", sku |-> "", book |-> NoBook, mask |-> <<>>,
     existing |-> NoBook, fieldsChanged |-> <<>>, err |-> "", code |-> ""]

\* CatalogServer.CreateBook and UpdateBook: the status made of the repository's error
StatusOf(err) ==
    IF err = "nil" THEN "OK"
    ELSE IF err = "ErrBookAlreadyExists" THEN "AlreadyExists"
    ELSE IF err = "ErrBookNotFound" THEN "NotFound"
    ELSE "Internal"

\* the handler returns
Replied(c, err) == [c EXCEPT !.pc = "done", !.err = err, !.code = StatusOf(err)]

\* CatalogServer.CreateBook up to its call of the repository
CreateBook(c, pb) ==
    /\ bookCall[c].pc \in {"idle", "done"}
    /\ bookCall' = [bookCall EXCEPT ![c] =
         IF validateBookForCreate(pb) # ""
         THEN [IdleCall EXCEPT !.op = "create", !.pc = "done", !.given = pb.sku,
                               !.sku = pb.sku, !.book = protoToBook(pb),
                               !.err = validateBookForCreate(pb),
                               !.code = "InvalidArgument"]
         ELSE [IdleCall EXCEPT !.op = "create", !.given = pb.sku, !.sku = pb.sku,
                               !.book = protoToBook(pb),
                               !.pc = IF pb.sku = "" THEN "generate" ELSE "check"]]
    /\ UNCHANGED <<books, inventoryVars, pub, amqp>>

\* ORDER BY sku DESC ... First(&lastBook): the number of the last BOOK- row, 0 for none
LastNum ==
    IF \E n \in 1..MaxSKU : books[Sprintf(n)].present
    THEN Sscanf(CHOOSE s \in GeneratedSKUs :
                  /\ books[s].present
                  /\ \A n \in 1..MaxSKU : books[Sprintf(n)].present => n <= Sscanf(s))
    ELSE 0

\* CatalogRepository.generateNextSKU, for a book that came without SKU
generateNextSKU(c) ==
    /\ bookCall[c].pc = "generate"
    /\ LastNum < MaxSKU
    /\ bookCall' = [bookCall EXCEPT ![c].pc = "check",
                       ![c].sku = IF LastNum = 0 THEN "BOOK-001" ELSE Sprintf(LastNum + 1)]
    /\ UNCHANGED <<books, inventoryVars, pub, amqp>>

\* CatalogRepository.CreateBook: "Check if book already exists", a statement of its own
CheckExists(c) ==
    /\ bookCall[c].pc = "check"
    /\ bookCall' = [bookCall EXCEPT ![c] =
         IF books[bookCall[c].sku].present
         THEN Replied(bookCall[c], "ErrBookAlreadyExists")
         ELSE [bookCall[c] EXCEPT !.pc = "insert"]]
    /\ UNCHANGED <<books, inventoryVars, pub, amqp>>

\* the outcome of INSERT INTO books when the primary key is taken: SQLSTATE 23505,
\* which CreateBook returns as it is
Inserted(row, book) ==
    IF row.present
    THEN [row |-> row, err |-> "duplicate key value violates unique constraint"]
    ELSE [row |-> book, err |-> "nil"]

\* CatalogRepository.CreateBook: r.db.Create(book), outside any transaction
InsertBook(c) ==
    /\ bookCall[c].pc = "insert"
    /\ LET out == Inserted(books[bookCall[c].sku], bookCall[c].book) IN
         /\ books' = [books EXCEPT ![bookCall[c].sku] = out.row]
         /\ bookCall' = [bookCall EXCEPT ![c] = Replied(bookCall[c], out.err)]
    /\ UNCHANGED <<inventoryVars, pub, amqp>>

\* getChangedFields: the fields of checkFields, in order, whose value differs
RECURSIVE ChangedFrom(_, _, _, _)
ChangedFrom(old, new, checkFields, i) ==
    IF i > Len(checkFields) THEN <<>>
    ELSE (IF checkFields[i] \in BookFields /\ old[checkFields[i]] # new[checkFields[i]]
          THEN <<checkFields[i]>> ELSE <<>>)
         \o ChangedFrom(old, new, checkFields, i + 1)

getChangedFields_IgnoresMask(old, new, updateMask) ==
    ChangedFrom(old, new,
                <<"title", "author", "price", "currency", "category", "description",
                  "active">>, 1)

getChangedFields(old, new, updateMask) ==
    ChangedFrom(old, new,
                IF Len(updateMask) = 0
                THEN <<"title", "author", "price", "currency", "category", "description",
                       "active">>
                ELSE updateMask, 1)

Range(seq) == {seq[i] : i \in 1..Len(seq)}

\* the updates map UpdateBook builds, applied to a row by Updates(updates)
Updates(row, book, fieldsChanged) ==
    [f \in DOMAIN row |-> IF f \in Range(fieldsChanged) \cap BookFields THEN book[f] ELSE row[f]]

\* CatalogServer.UpdateBook up to the repository's GetBook and getChangedFields
UpdateBook(c, pb, updateMask) ==
    /\ bookCall[c].pc \in {"idle", "done"}
    /\ bookCall' = [bookCall EXCEPT ![c] =
         IF validateBook(pb) # ""
         THEN [IdleCall EXCEPT !.op = "update", !.pc = "done", !.given = pb.sku,
                               !.sku = pb.sku, !.book = protoToBook(pb),
                               !.mask = updateMask,
                               !.err = validateBook(pb), !.code = "InvalidArgument"]
         ELSE IF pb.sku \notin CatalogSKUs \/ ~books[pb.sku].present
         THEN Replied([IdleCall EXCEPT !.op = "update", !.given = pb.sku, !.sku = pb.sku,
                                       !.book = protoToBook(pb), !.mask = updateMask],
                      "ErrBookNotFound")
         ELSE LET changed == getChangedFields(books[pb.sku], protoToBook(pb), updateMask)
                  here == [IdleCall EXCEPT !.op = "update", !.given = pb.sku,
                                           !.sku = pb.sku,
                                           !.book = protoToBook(pb), !.mask = updateMask,
                                           !.existing = books[pb.sku],
                                           !.fieldsChanged = changed]
              IN IF Len(changed) = 0 THEN Replied(here, "nil")
                 ELSE [here EXCEPT !.pc = "updates"]]
    /\ UNCHANGED <<books, inventoryVars, pub, amqp>>

\* CatalogRepository.UpdateBook: Model(&db.Book{}).Where("sku = ?").Updates(updates)
UpdateBookWrite(c) ==
    /\ bookCall[c].pc = "updates"
    /\ books' = [books EXCEPT ![bookCall[c].sku] =
                    IF @.present
                    THEN Updates(@, bookCall[c].book, bookCall[c].fieldsChanged)
                    ELSE @]
    /\ bookCall' = [bookCall EXCEPT ![c] = Replied(bookCall[c], "nil")]
    /\ UNCHANGED <<inventoryVars, pub, amqp>>

\* --------------------------------------------------------------------- Init
InitWith(publishers) ==
    /\ \E q1 \in 0..MaxStock, q2 \in 0..MaxStock, has2 \in BOOLEAN :
         /\ items = [i \in ItemIDs |->
                        IF i = "BOOK-001" THEN SeedItem(i, q1)
                        ELSE IF has2 THEN SeedItem(i, q2) ELSE NoItem]
         /\ (~has2 => q2 = 0)
    /\ items0 = items
    /\ rowLock = [i \in ItemIDs |-> NoTx]
    /\ tx = [t \in TxIds |-> IdleTx]
    /\ resp = [t \in Calls |-> NoResp]
    /\ queue = <<>>
    /\ cur = NoDelivery
    /\ log = <<>>
    /\ publisher \in publishers
    /\ published = {}
    /\ crashed = FALSE
    /\ pub = [p \in Publishings |-> IdlePub]
    /\ amqp = NewChannel
    /\ exceeded = {}
    /\ wire = <<>>
    /\ books = [s \in CatalogSKUs |-> NoBook]
    /\ bookCall = [c \in CatalogCalls |-> IdleCall]

Init == InitWith({"ok", "nil"})

\* --------------------------------------------------------------------- Next
AnyQtys == (0 - 1)..MaxQty
Deltas == (0 - MaxQty)..MaxQty
GeneralCalls == 1..MaxCalls

RPCReserveStock(T, O, Q) ==
    \E t \in T, o \in O, ls \in LinesOver(Q) : BeginCall(t, "reserve", o, ls)
RPCReleaseStock(T, O, Q) ==
    \E t \in T, o \in O, ls \in LinesOver(Q) : BeginCall(t, "release", o, ls)
RPCUpdateStock(T) ==
    \E t \in T, i \in ItemIDs, d \in Deltas : UpdateStock(t, i, d)
RPCUpdateStockFails(T) ==
    \E t \in T, i \in ItemIDs, d \in Deltas : UpdateStockFails(t, i, d)
RPCGetItem(T) ==
    \E t \in T, i \in ItemIDs : GetItem(t, i)
RPCCheckAvailability(T, Q) ==
    \E t \in T, i \in ItemIDs, q \in Q : CheckAvailability(t, i, q)

DoReserveSelect == \E t \in TxIds : ReserveSelect(t)
DoReserveUpdate == \E t \in TxIds : ReserveUpdate(t)
DoReleaseUpdate == \E t \in TxIds : ReleaseUpdate(t)
DoCommit == \E t \in TxIds : Commit(t)
DoStatementFails == \E t \in TxIds : StatementFails(t)

OrderPublishes(O, Q) ==
    \E k \in {"order.created", "order.cancelled"}, o \in O, ls \in LinesOver(Q) :
        PublishOrderEvent(k, o, ls)
CatalogCreatedPublishes ==
    \E i \in ItemIDs, b \in Books : PublishCatalogCreated(i, b.title, b.category, b.cents)
CatalogDeletedPublishes == \E i \in ItemIDs : PublishCatalogDeleted(i)
MalformedPublishes == \E k \in KnownKeys : PublishMalformed(k)
DuplicatePublishes == \E m \in SentMsgs : PublishDuplicate(m)

DoDeadlineExceeded == \E t \in Calls : DeadlineExceeded(t)

DoPublishEvent == \E key \in InventoryKeys : PublishEvent(key)

DoPublishBook == \E p \in Publishings : PublishBook(p)
DoCancel == \E p \in Publishings : Cancel(p)
DoBackoff == \E p \in Publishings : Backoff(p)
DoNotifyPublish == \E p \in Publishings : NotifyPublish(p)
DoSend == \E p \in Publishings : Send(p)
DoAwaitConfirm == \E p \in Publishings : AwaitConfirm(p)
DoConfirmTimeout == \E p \in Publishings : ConfirmTimeout(p)
DoBrokerConfirms == \E ack \in BOOLEAN : BrokerConfirms(ack)

\* the books the catalog's RPCs are called with
Titles == {"Test Book", "Updated Title"}
Authors == {"Test Author", "Updated Author"}
Amounts == {1999, 2999}
ValidBooks(SKUs, T, A, P) ==
    {ProtoBook(s, t, a, TRUE, p, "USD", TRUE) : s \in SKUs, t \in T, a \in A, p \in P}
InvalidBooks(SKUs) ==
    {NilBook}
    \cup {ProtoBook(s, "", "Test Author", TRUE, 1999, "USD", TRUE) : s \in SKUs}
    \cup {ProtoBook(s, "Test Book", "", TRUE, 1999, "USD", TRUE) : s \in SKUs}
    \cup {ProtoBook(s, "Test Book", "Test Author", FALSE, 0, "", TRUE) : s \in SKUs}
    \cup {ProtoBook(s, "Test Book", "Test Author", TRUE, 0, "USD", TRUE) : s \in SKUs}
    \cup {ProtoBook(s, "Test Book", "Test Author", TRUE, 1999, "", TRUE) : s \in SKUs}
CreateRequests ==
    ValidBooks({"", "BOOK-001", "TEST-002"}, Titles, {"Test Author"}, {1999})
    \cup InvalidBooks({"", "TEST-002"})
\* update masks: the empty one, and names of fields, one of which is not updatable
Masks(Names) == UNION {[1..n -> Names] : n \in 0..MaxMask}

RPCCreateBook(C, Requests) ==
    \E c \in C, pb \in Requests : CreateBook(c, pb)
RPCUpdateBook(C, Requests, M) ==
    \E c \in C, pb \in Requests, updateMask \in M : UpdateBook(c, pb, updateMask)
DoGenerateNextSKU == \E c \in CatalogCalls : generateNextSKU(c)
DoCheckExists == \E c \in CatalogCalls : CheckExists(c)
DoInsertBook == \E c \in CatalogCalls : InsertBook(c)
DoUpdateBookWrite == \E c \in CatalogCalls : UpdateBookWrite(c)

Next ==
    \/ RPCReserveStock(GeneralCalls, OrderIDs, AnyQtys)
    \/ RPCReleaseStock(GeneralCalls, OrderIDs, AnyQtys)
    \/ RPCUpdateStock(GeneralCalls)
    \/ RPCUpdateStockFails(GeneralCalls)
    \/ DoReserveSelect
    \/ DoReserveUpdate
    \/ DoReleaseUpdate
    \/ DoCommit
    \/ DoStatementFails
    \/ OrderPublishes(OrderIDs, AnyQtys)
    \/ CatalogCreatedPublishes
    \/ CatalogDeletedPublishes
    \/ MalformedPublishes
    \/ PublishUnknown
    \/ DuplicatePublishes
    \/ Deliver
    \/ HandleUnknown
    \/ HandleOrderCreated
    \/ HandleOrderCancelled
    \/ HandleCatalogCreated
    \/ HandleCatalogDeleted
    \/ HandleCatalogFails
    \/ DoDeadlineExceeded
    \/ DoPublishEvent
    \/ DoPublishBook
    \/ DoCancel
    \/ DoBackoff
    \/ DoNotifyPublish
    \/ DoSend
    \/ DoAwaitConfirm
    \/ DoConfirmTimeout
    \/ DoBrokerConfirms
    \/ PassOn
    \/ RPCGetItem(GeneralCalls)
    \/ RPCCheckAvailability(GeneralCalls, AnyQtys)
    \/ RPCCreateBook(CatalogCalls, CreateRequests)
    \/ RPCUpdateBook(CatalogCalls,
                     ValidBooks({"BOOK-001", "TEST-002"}, Titles, Authors, Amounts),
                     Masks({"title", "author", "price", "stock"}))
    \/ DoGenerateNextSKU
    \/ DoCheckExists
    \/ DoInsertBook
    \/ DoUpdateBookWrite

Spec == Init /\ [][Next]_vars

\* reservations and releases with positive quantities, by RPC only
NextRR ==
    \/ RPCReserveStock(GeneralCalls, {"order-1"}, PositiveQtys)
    \/ RPCReleaseStock(GeneralCalls, {"order-1"}, PositiveQtys)
    \/ DoReserveSelect
    \/ DoReserveUpdate
    \/ DoReleaseUpdate
    \/ DoCommit
    \/ DoStatementFails

SpecRR == InitWith({"ok"}) /\ [][NextRR]_vars

\* the order workflow: the order service reserves by RPC, then publishes
\* order.created with the order's items; a cancellation publishes
\* order.cancelled with them
WorkflowPublishes ==
    \E t \in Calls, k \in {"order.created", "order.cancelled"} :
        /\ tx[t].kind = "reserve"
        /\ resp[t].sent /\ resp[t].success
        /\ PublishOrderEvent(k, tx[t].order, tx[t].lines)

\* reservations and releases with positive quantities, by RPC and by event
NextDual ==
    \/ RPCReserveStock({1}, OrderIDs, PositiveQtys)
    \/ WorkflowPublishes
    \/ DuplicatePublishes
    \/ Deliver
    \/ HandleOrderCreated
    \/ HandleOrderCancelled
    \/ DoReserveSelect
    \/ DoReserveUpdate
    \/ DoReleaseUpdate
    \/ DoCommit
    \/ DoStatementFails

SpecDual == InitWith({"ok"}) /\ [][NextDual]_vars

\* the consumer alone, fed order events
NextOrders ==
    \/ OrderPublishes({"order-1"}, PositiveQtys)
    \/ DuplicatePublishes
    \/ MalformedPublishes
    \/ PublishUnknown
    \/ Deliver
    \/ HandleUnknown
    \/ HandleOrderCreated
    \/ HandleOrderCancelled
    \/ HandleCatalogCreated
    \/ HandleCatalogDeleted
    \/ DoReserveSelect
    \/ DoReserveUpdate
    \/ DoReleaseUpdate
    \/ DoCommit
    \/ DoStatementFails

SpecOrders == InitWith({"ok"}) /\ [][NextOrders]_vars

\* the catalog synchronisation next to manual stock updates
NextCatalog ==
    \/ RPCUpdateStock({1})
    \/ RPCUpdateStockFails({1})
    \/ CatalogCreatedPublishes
    \/ CatalogDeletedPublishes
    \/ DuplicatePublishes
    \/ Deliver
    \/ HandleCatalogCreated
    \/ HandleCatalogDeleted
    \/ HandleCatalogFails

SpecCatalog == Init /\ [][NextCatalog]_vars

\* N concurrent single-unit reservations of BOOK-001, which holds N-1 units
InitConc ==
    /\ InitWith({"ok"})
    /\ items["BOOK-001"].quantity = NConc - 1
    /\ ~items["BOOK-002"].present

ConcurrentReserve ==
    \E t \in Calls : BeginCall(t, "reserve", "order-1", <<ReservedItem("BOOK-001", 1)>>)

NextConc ==
    \/ ConcurrentReserve
    \/ DoReserveSelect
    \/ DoReserveUpdate
    \/ DoCommit
    \/ DoStatementFails

SpecConc == InitConc /\ [][NextConc]_vars

\* the three stock RPCs next to each other
NextStock ==
    \/ RPCReserveStock(GeneralCalls, {"order-1"}, UnitQtys)
    \/ RPCReleaseStock(GeneralCalls, {"order-1"}, UnitQtys)
    \/ RPCUpdateStock(GeneralCalls)
    \/ DoReserveSelect
    \/ DoReserveUpdate
    \/ DoReleaseUpdate
    \/ DoCommit
    \/ DoStatementFails

SpecStock == InitWith({"ok"}) /\ [][NextStock]_vars

\* one ReserveStock or ReleaseStock RPC and its caller's deadline
NextDeadline ==
    \/ RPCReserveStock({1}, {"order-1"}, PositiveQtys)
    \/ RPCReleaseStock({1}, {"order-1"}, PositiveQtys)
    \/ DoDeadlineExceeded
    \/ DoReserveSelect
    \/ DoReserveUpdate
    \/ DoReleaseUpdate
    \/ DoCommit
    \/ DoStatementFails

SpecDeadline == InitWith({"ok"}) /\ [][NextDeadline]_vars

\* the catalog service's publisher alone, next to an idle inventory service
InitPublisher ==
    /\ InitWith({"ok"})
    /\ items["BOOK-001"].quantity = 0
    /\ ~items["BOOK-002"].present

NextPublisher ==
    \/ DoPublishBook
    \/ DoCancel
    \/ DoBackoff
    \/ DoNotifyPublish
    \/ DoSend
    \/ DoAwaitConfirm
    \/ DoConfirmTimeout
    \/ DoBrokerConfirms
    \/ PassOn

SpecPublisher == InitPublisher /\ [][NextPublisher]_vars

\* the inventory service's publisher alone
NextInventoryPublisher == DoPublishEvent

SpecInventoryPublisher == InitPublisher /\ [][NextInventoryPublisher]_vars

\* the five RPCs of the ledger next to each other
NextFrame ==
    \/ RPCReserveStock(GeneralCalls, {"order-1"}, UnitQtys)
    \/ RPCReleaseStock(GeneralCalls, {"order-1"}, UnitQtys)
    \/ RPCUpdateStock(GeneralCalls)
    \/ RPCGetItem(GeneralCalls)
    \/ RPCCheckAvailability(GeneralCalls, PositiveQtys)
    \/ DoReserveSelect
    \/ DoReserveUpdate
    \/ DoReleaseUpdate
    \/ DoCommit
    \/ DoStatementFails

SpecFrame == InitWith({"ok"}) /\ [][NextFrame]_vars

\* concurrent UpdateStock calls, next to a reservation that holds row locks
NextUpdates ==
    \/ RPCUpdateStock(Calls)
    \/ RPCUpdateStockFails(Calls)
    \/ RPCReserveStock({1}, {"order-1"}, UnitQtys)
    \/ DoReserveSelect
    \/ DoReserveUpdate
    \/ DoCommit
    \/ DoStatementFails

SpecUpdates == InitWith({"ok"}) /\ [][NextUpdates]_vars

\* one ReserveStock or ReleaseStock RPC with any line quantities: the handlers
\* pass on what the request carries
NextAnyQuantity ==
    \/ RPCReserveStock({1}, {"order-1"}, AnyQtys)
    \/ RPCReleaseStock({1}, {"order-1"}, AnyQtys)
    \/ DoReserveSelect
    \/ DoReserveUpdate
    \/ DoReleaseUpdate
    \/ DoCommit
    \/ DoStatementFails

SpecAnyQuantity == InitWith({"ok"}) /\ [][NextAnyQuantity]_vars

\* catalog events delivered and delivered again, the database answering every
\* statement
NextRedelivery ==
    \/ CatalogCreatedPublishes
    \/ CatalogDeletedPublishes
    \/ DuplicatePublishes
    \/ Deliver
    \/ HandleCatalogCreated
    \/ HandleCatalogDeleted

SpecRedelivery == InitWith({"ok"}) /\ [][NextRedelivery]_vars

\* CreateBook RPCs of the catalog service, two at a time
NextCreateBook ==
    \/ RPCCreateBook(CatalogCalls, CreateRequests)
    \/ DoGenerateNextSKU
    \/ DoCheckExists
    \/ DoInsertBook

SpecCreateBook == InitPublisher /\ [][NextCreateBook]_vars

\* UpdateBook RPCs on a book created before: every request and mask from one
\* caller, changes of the title from a second one at the same time
NextUpdateBook ==
    \/ RPCCreateBook(CatalogCalls,
                     ValidBooks({"TEST-002"}, {"Test Book"}, {"Test Author"}, {1999}))
    \/ DoCheckExists
    \/ DoInsertBook
    \/ RPCUpdateBook({1}, ValidBooks({"TEST-002"}, Titles, Authors, Amounts),
                     Masks({"title", "price", "stock"}))
    \/ RPCUpdateBook({2}, ValidBooks({"TEST-002"}, Titles, {"Test Author"}, {1999}),
                     {<<"title">>})
    \/ DoUpdateBookWrite

SpecUpdateBook == InitPublisher /\ [][NextUpdateBook]_vars

\* ---------------------------------------------------------------- properties
RECURSIVE LineTotalTo(_, _, _)
LineTotalTo(lines, i, n) ==
    IF n = 0 THEN 0
    ELSE LineTotalTo(lines, i, n - 1)
            + (IF lines[n].ItemID = i THEN lines[n].Quantity ELSE 0)

\* the quantity the lines of a request ask of item i
LineTotal(lines, i) == LineTotalTo(lines, i, Len(lines))

\* the table with every line of the request subtracted
Decremented(its, lines) ==
    [i \in ItemIDs |-> [its[i] EXCEPT !.quantity = @ - LineTotal(lines, i)]]

Succeeded(t) == tx[t].phase = "done" /\ tx[t].err.kind = "nil"
InFlight(t) == tx[t].phase \in {"select", "update", "commit"}

\* what the committed call t added to the quantity of item i
Contribution(t, i) ==
    IF ~Succeeded(t) THEN 0
    ELSE IF tx[t].kind = "reserve" THEN 0 - LineTotal(tx[t].lines, i)
    ELSE LineTotal(tx[t].lines, i)

RECURSIVE ContributionsTo(_, _)
ContributionsTo(n, i) ==
    IF n = 0 THEN 0 ELSE ContributionsTo(n - 1, i) + Contribution(n, i)

\* C1: with positive line quantities and quantities that start >= 0, every
\* committed quantity stays >= 0 under every interleaving of concurrent
\* ReserveStock and ReleaseStock transactions.
C1_QuantityNeverNegative ==
    \A i \in ItemIDs : items[i].quantity >= 0

\* two reservations ran concurrently against a row and left it at 0
C1_Witness ==
    \E t, u \in Calls :
        /\ t # u
        /\ Succeeded(t) /\ tx[t].kind = "reserve" /\ tx[t].lines # <<>>
        /\ tx[u].kind = "reserve" /\ tx[u].phase = "done"
        /\ tx[u].err.kind = "insufficient"
        /\ tx[u].lines = tx[t].lines
        /\ items[tx[t].lines[1].ItemID].quantity = 0

\* C2: a ReserveStock call changes the committed table in one step only, its
\* commit, and then by every line at once; every other step of the call, its
\* failure included, leaves the committed table as it was.
C2_ReserveAllOrNothing ==
    [][\A t \in TxIds :
        (tx[t].kind = "reserve" /\ InFlight(t) /\ tx'[t] # tx[t]) =>
            IF tx'[t].phase = "done" /\ tx'[t].err.kind = "nil"
            THEN items' = Decremented(items, tx[t].lines)
            ELSE items' = items]_vars

\* a two-item reservation failed on its second line after writing the first
C2_Witness ==
    \E t \in Calls :
        /\ tx[t].kind = "reserve" /\ tx[t].phase = "done"
        /\ Len(tx[t].lines) = 2 /\ tx[t].idx = 2
        /\ tx[t].lines[1].ItemID # tx[t].lines[2].ItemID
        /\ tx[t].err.kind \in {"insufficient", "notfound"}
        /\ items = items0

\* C3: N concurrent reservations of one unit of an item holding N-1 units:
\* never more successes than units, and once all have returned without a
\* database failure exactly N-1 succeeded, one was refused for insufficient
\* stock with a success=false response, and the quantity is 0.
C3_ExactlyOneRefused ==
    LET ok == {t \in Calls : Succeeded(t)}
        refused == {t \in Calls : tx[t].phase = "done" /\ tx[t].err.kind = "insufficient"}
    IN  /\ items["BOOK-001"].quantity = NConc - 1 - Cardinality(ok)
        /\ items["BOOK-001"].quantity >= 0
        /\ (\A t \in Calls : tx[t].phase = "done" /\ tx[t].err.kind # "dberror") =>
              /\ Cardinality(ok) = NConc - 1
              /\ Cardinality(refused) = 1
              /\ items["BOOK-001"].quantity = 0
              /\ \A t \in refused : resp[t].sent /\ ~resp[t].success
              /\ \A t \in ok : resp[t].sent /\ resp[t].success

\* all N calls returned, none for a database failure
C3_Witness ==
    /\ \A t \in Calls :
         tx[t].kind = "reserve" /\ tx[t].phase = "done" /\ tx[t].err.kind # "dberror"
    /\ items["BOOK-001"].quantity = 0

C5_InsufficientIsStructured ==
    [][\A t \in Calls :
        (tx[t].kind = "reserve" /\ tx[t].phase = "select" /\ tx'[t] # tx[t]
           /\ tx'[t].err.kind # "dberror") =>
            LET ri == tx[t].lines[tx[t].idx] IN
            (items[ri.ItemID].present /\ Current(t, ri.ItemID) < ri.Quantity) =>
                /\ tx'[t].phase = "done"
                /\ resp'[t].sent /\ ~resp'[t].success
                /\ resp'[t].status = "OK"
                /\ resp'[t].message.kind = "insufficient"
                /\ resp'[t].message.item = ri.ItemID
                /\ resp'[t].message.available = Current(t, ri.ItemID)
                /\ resp'[t].message.requested = ri.Quantity
                /\ (tx[t].pending[ri.ItemID] = 0 =>
                        resp'[t].message.available = items[ri.ItemID].quantity)
                /\ items' = items]_vars

\* a request for 2 against a row holding 1 was refused, and the row holds 1
C5_Witness ==
    \E t \in Calls :
        /\ resp[t].sent /\ ~resp[t].success /\ resp[t].status = "OK"
        /\ resp[t].message.kind = "insufficient"
        /\ resp[t].message.available = 1 /\ resp[t].message.requested = 2
        /\ items[resp[t].message.item].quantity = 1

\* C6: a manual UpdateStock never persists a negative quantity: no committed
\* quantity is below 0 and no successful UpdateStock reports one.
C6_UpdateStockNeverNegative ==
    /\ \A i \in ItemIDs : items[i].quantity >= 0
    /\ \A t \in Calls :
         (tx[t].kind = "update" /\ resp[t].success) => resp[t].newQuantity >= 0

AckedEntries == {k \in 1..Len(log) : log[k].outcome = "acked"}

\* C7: once the ReserveStock RPC of an order has succeeded and the consumer
\* has acked the order.created event of the same order and items, every
\* quantity is lower than at the start by the requested amount, once.
C7_ReservedOncePerOrder ==
    \A k \in AckedEntries :
        (/\ AckedEntries = {k}
         /\ log[k].msg.key = "order.created"
         /\ tx[1].kind = "reserve" /\ Succeeded(1)
         /\ tx[1].order = log[k].msg.order /\ tx[1].lines = log[k].msg.lines) =>
            \A i \in ItemIDs :
                items[i].quantity = items0[i].quantity - LineTotal(tx[1].lines, i)

\* what handling the order event m once adds to the quantity of item i
Effect(m, i) ==
    IF m.key = "order.created" THEN 0 - LineTotal(m.lines, i)
    ELSE IF m.key = "order.cancelled" THEN LineTotal(m.lines, i)
    ELSE 0

RECURSIVE EffectOf(_, _)
EffectOf(S, i) ==
    IF S = {} THEN 0
    ELSE LET m == CHOOSE x \in S : TRUE IN Effect(m, i) + EffectOf(S \ {m}, i)

\* C8: the ledger is what handling every acked event once makes it, however
\* often the event was delivered and acked.
C8_DuplicateDeliveryTolerated ==
    \A i \in ItemIDs :
        items0[i].present =>
            items[i].quantity =
                items0[i].quantity + EffectOf({log[k].msg : k \in AckedEntries}, i)

\* C9: the handling of an order.created event ends in an ack only by the
\* commit of the whole reservation; when the reservation fails the message is
\* nacked with requeue, goes back to the head of the queue, and the committed
\* table is unchanged.
C9_FailedReservationRequeued ==
    [][(/\ cur.state = "processing" /\ cur.msg.key = "order.created" /\ cur.msg.ok
        /\ cur'.state # "processing") =>
            IF cur'.state = "acked"
            THEN /\ tx[ConsumerTx].phase = "commit"
                 /\ items' = Decremented(items, cur.msg.lines)
            ELSE /\ cur'.state = "nacked_requeue"
                 /\ tx'[ConsumerTx].err.kind # "nil"
                 /\ queue' # <<>> /\ Head(queue').msg = cur.msg
                 /\ items' = items]_vars

\* an event of two items was nacked because the second has too little stock,
\* after the first line had been written in the transaction
C9_Witness ==
    /\ cur.state = "nacked_requeue" /\ cur.msg.key = "order.created"
    /\ Len(cur.msg.lines) = 2
    /\ cur.msg.lines[1].ItemID # cur.msg.lines[2].ItemID
    /\ tx[ConsumerTx].err.kind = "insufficient"
    /\ tx[ConsumerTx].err.item = cur.msg.lines[2].ItemID
    /\ items = items0

\* C10: handling catalog.created for an item_id the ledger already holds
\* changes no row (quantity, name, category and price stay), and the message
\* is not discarded: it is acked unless the database call itself failed or
\* the process died publishing.
C10_CreateItemIdempotent ==
    [][(/\ cur.state = "processing" /\ cur.msg.key = "catalog.created" /\ cur.msg.ok
        /\ items[cur.msg.sku].present
        /\ (cur' # cur \/ crashed' # crashed)) =>
            /\ items' = items
            /\ cur'.state \in {"acked", "nacked_requeue", "processing"}
            /\ (cur'.state = "processing" => crashed')
            /\ (cur'.state = "acked" => publisher = "ok")]_vars

\* a catalog.created event whose title differs from the stored one was acked
\* twice for an item in stock, and the row is as it was at the start
C10_Witness ==
    \E k, l \in AckedEntries :
        /\ k < l
        /\ log[k].msg = log[l].msg
        /\ log[k].msg.key = "catalog.created"
        /\ items0[log[k].msg.sku].present
        /\ items0[log[k].msg.sku].quantity > 0
        /\ log[k].msg.title # items0[log[k].msg.sku].name
        /\ items[log[k].msg.sku] = items0[log[k].msg.sku]

\* C11: every delivery is settled exactly once: the step that ends the
\* handling of a delivery issues one Ack or Nack (acked, nacked with requeue
\* or nacked without) for the handled message, no other step issues any, and
\* no handler ends, by return or by panic, having issued none.
C11_ExactlyOneAckOrNack ==
    [][/\ (log' # log =>
             /\ cur.state = "processing"
             /\ cur'.state \in {"acked", "nacked_requeue", "nacked_discard"}
             /\ log' = Append(log, [msg |-> cur.msg, outcome |-> cur'.state]))
       /\ ((cur.state = "processing" /\ cur' # cur) => Len(log') = Len(log) + 1)
       /\ ((cur.state = "processing" /\ crashed' /\ ~crashed) =>
              Len(log') = Len(log) + 1)]_vars

Unparsable(m) == m.key \notin KnownKeys \/ ~m.ok

\* C12: a delivery with an unknown routing key, or with a known key and a
\* body that does not parse, ends in a nack without requeue: the message
\* does not go back on the queue, it was never delivered before, and no row
\* of the table changes while it is handled.
C12_UnparsableDiscarded ==
    [][(cur.state = "processing" /\ Unparsable(cur.msg)) =>
          /\ cur.deliveries = 1
          /\ items' = items
          /\ (cur' # cur =>
                /\ cur'.state = "nacked_discard"
                /\ queue' = queue
                /\ log' = Append(log, [msg |-> cur.msg, outcome |-> "nacked_discard"]))]_vars

\* a message with an unknown key and one with a known key and a broken body
\* were both discarded, and the table is as it was at the start
C12_Witness ==
    /\ \E k \in 1..Len(log) :
         log[k].outcome = "nacked_discard" /\ log[k].msg.key \notin KnownKeys
    /\ \E k \in 1..Len(log) :
         log[k].outcome = "nacked_discard" /\ log[k].msg.key \in KnownKeys /\ ~log[k].msg.ok
    /\ queue = <<>>
    /\ items = items0

\* C13: a call of publishWithRetry returns nil only on the broker's positive
\* acknowledgment of the publishing its current attempt sent: the confirmation
\* it took carries the delivery tag of that publishing, not the tag of another
\* call's publishing or of an earlier attempt, and the broker acked that tag.
C13_OwnConfirmationOnly ==
    \A p \in Publishings :
        pub[p].result = "nil" =>
            /\ pub[p].took.Ack
            /\ pub[p].took.DeliveryTag = pub[p].tag
            /\ pub[p].tag \in amqp.acked

\* the listener the channel is sending to belongs to an attempt that is over
Abandoned(k) ==
    \A p \in Publishings :
        ~(pub[p].confirms = k /\ pub[p].pc \in {"send", "confirm", "confirmWait"})

\* the channel waits for room in a full listener that nobody will read again
ChannelStuck ==
    /\ amqp.sending # NoConfirmation
    /\ Len(amqp.listeners[amqp.to]) = ListenerCap
    /\ Abandoned(amqp.to)

\* C14: publishWithRetry always terminates after at most maxRetries sends:
\* it never sends more than maxRetries times, it returns nil at the first
\* attempt whose wait ends in a positive confirmation, it returns the terminal
\* error after maxRetries unsuccessful attempts, and it is never left where it
\* cannot return any more.
C14_TerminatesWithinMaxRetries ==
    \A p \in Publishings :
        /\ pub[p].sends <= maxRetries
        /\ pub[p].sends \in {pub[p].attempt, pub[p].attempt + 1}
        /\ (pub[p].result = "nil" => pub[p].took.Ack /\ pub[p].sends = pub[p].attempt + 1)
        /\ (pub[p].result = "exhausted" =>
               pub[p].sends = maxRetries /\ pub[p].attempt = maxRetries)
        /\ ~(pub[p].pc = "notify" /\ ChannelStuck)

\* C15: a call whose context is done while it is blocked waiting for the
\* confirmation, or while it backs off before a retry, returns the context's
\* error as its next step and sends nothing more; a call that has returned
\* does nothing more.
C15_CancellationHonoured ==
    [][\A p \in Publishings :
        /\ (pub[p].pc = "confirmWait" /\ pub'[p].ctxDone) =>
              /\ pub'[p].pc = "done" /\ pub'[p].result = "ctx"
              /\ pub'[p].sends = pub[p].sends
        /\ (pub[p].pc = "backoff" /\ pub[p].ctxDone /\ pub'[p] # pub[p]) =>
              /\ pub'[p].pc = "done" /\ pub'[p].result = "ctx"
              /\ pub'[p].sends = pub[p].sends
        /\ (pub[p].pc = "backoff" /\ pub'[p].pc = "backoff" => pub'[p].sends = pub[p].sends)
        /\ (pub[p].pc = "done" => pub'[p] = pub[p])]_vars

\* one call was cancelled while it waited for its first confirmation, another
\* while it backed off after a confirmation timeout; each sent once
C15_Witness ==
    \E p, q \in Publishings :
        /\ pub[p].result = "ctx" /\ pub[p].attempt = 0 /\ pub[p].tag > 0
        /\ pub[p].sends = 1
        /\ pub[q].result = "ctx" /\ pub[q].attempt = 1 /\ pub[q].lastErr = "timeout"
        /\ pub[q].sends = 1

\* the event the handler of call t publishes after its mutation
EventOf(t) ==
    IF tx[t].kind = "update"
    THEN LET ri == tx[t].lines[1] IN
         PublishedEvent("inventory.stock_updated", ri.ItemID,
                        resp[t].newQuantity - ri.Quantity, resp[t].newQuantity, ri.Quantity)
    ELSE PublishedEvent(StockEventKey(tx[t].kind), tx[t].order, 0, 0, 0)

\* the mutation of call t committed and its event did not get out
PublishFailed(t) == Succeeded(t) /\ EventOf(t) \notin published

\* C16: when the mutation of a ReserveStock, ReleaseStock or UpdateStock call
\* committed and the publish after it failed, the call still returns success,
\* and the committed quantity of every row is the initial one plus what every
\* committed call contributed: nothing was rolled back or altered.
C16_PublishFailureIsolated ==
    \A t \in Calls :
        PublishFailed(t) =>
            /\ resp[t].sent /\ resp[t].success /\ resp[t].status = "OK"
            /\ \A i \in ItemIDs :
                 items[i].present =>
                    items[i].quantity = items0[i].quantity + ContributionsTo(NConc, i)

\* a reservation and a stock update both committed a change, neither event
\* got out, and both calls returned success
C16_Witness ==
    \E t, u \in Calls :
        /\ tx[t].kind = "reserve" /\ tx[t].lines # <<>> /\ PublishFailed(t)
        /\ tx[u].kind = "update" /\ tx[u].lines[1].Quantity # 0 /\ PublishFailed(u)
        /\ resp[t].success /\ resp[u].success
        /\ published = {}
        /\ items # items0

\* C17: a ReserveStock or ReleaseStock call whose deadline passed before its
\* transaction committed is aborted and rolled back: it does not commit, it
\* does not report success, and when every call made had its deadline pass
\* the committed table is as it was at the start.
C17_DeadlineAborts ==
    /\ \A t \in exceeded :
         /\ ~Succeeded(t)
         /\ (resp[t].sent => ~resp[t].success)
    /\ ((\A t \in Calls : tx[t].phase # "idle" => t \in exceeded) => items = items0)

\* C18: what other transactions and readers see of a reservation is none of
\* its decrements or all of them: the committed quantity of every row is the
\* initial one plus the lines of the calls that committed, whatever the calls
\* in flight have written so far; and a reservation that is about to commit
\* holds the lock of the row of every line and has found every row sufficient.
C18_NoPartialReservationVisible ==
    /\ \A i \in ItemIDs :
         items[i].present =>
            items[i].quantity = items0[i].quantity + ContributionsTo(NConc, i)
    /\ \A t \in Calls :
         (tx[t].kind = "reserve" /\ tx[t].phase = "commit") =>
            \A k \in 1..Len(tx[t].lines) :
                LET i == tx[t].lines[k].ItemID IN
                /\ rowLock[i] = t
                /\ tx[t].pending[i] = 0 - LineTotal(tx[t].lines, i)
                /\ Current(t, i) >= 0

\* a reservation of two items has written its first decrement and is about to
\* select the second row, while another call running next to it reads the
\* first row as it was at the start
C18_Witness ==
    \E t, u \in Calls :
        /\ t # u
        /\ tx[t].kind = "reserve" /\ tx[t].phase = "select" /\ tx[t].idx = 2
        /\ tx[t].lines[1].ItemID # tx[t].lines[2].ItemID
        /\ tx[t].pending[tx[t].lines[1].ItemID] < 0
        /\ InFlight(u)
        /\ Current(u, tx[t].lines[1].ItemID) = items0[tx[t].lines[1].ItemID].quantity
        /\ items = items0

\* C19: the inventory service's publisher reports a publish as successful
\* only after the broker acknowledged it, and reports a failure only after
\* it has tried again.
C19_AckedOrRetried ==
    \A k \in 1..Len(wire) :
        /\ (~wire[k].err => wire[k].acked)
        /\ (wire[k].err => wire[k].attempts > 1)

\* C20: a ReleaseStock call ends in one of two ways: it reports success and
\* the row of every listed line exists and holds its quantity plus what the
\* request's lines add to it, or it reports failure and no row has changed;
\* also when a listed item_id is not in the table.
C20_ReleaseAllOrNothing ==
    [][\A t \in Calls :
        (tx[t].kind = "release" /\ InFlight(t) /\ tx'[t].phase = "done") =>
            IF resp'[t].success
            THEN \A k \in 1..Len(tx[t].lines) :
                    LET i == tx[t].lines[k].ItemID IN
                    /\ items'[i].present
                    /\ items'[i].quantity = items[i].quantity + LineTotal(tx[t].lines, i)
            ELSE items' = items]_vars

\* ---------------------------------------------------------------- C21
\* the request of a CreateBook call came without sku or without title
Lacking(c) == c.op = "create" /\ (c.given = "" \/ c.book.title = "")

\* C21: a CreateBook whose book lacks its sku or lacks its title returns an
\* error and stores no book: no step of such a call writes the table, and the
\* status it returns is not OK
C21_CreateRejectsIncomplete ==
    [][\A c \in CatalogCalls :
          (bookCall'[c] # bookCall[c] /\ Lacking(bookCall'[c]))
              => /\ books' = books
                 /\ (bookCall'[c].pc = "done" => bookCall'[c].code # "OK")]_vars

\* ---------------------------------------------------------------- C22
\* C22: a CreateBook that returns while a book with its SKU is stored returns
\* ErrBookAlreadyExists and leaves the table as it is, and one that returns
\* while there is none has stored its book: whatever the interleaving, of the
\* calls with one SKU one succeeds and the others get ErrBookAlreadyExists
C22_DuplicateCreateRefused ==
    [][\A c \in CatalogCalls :
          (/\ bookCall'[c] # bookCall[c]
           /\ bookCall'[c].op = "create"
           /\ bookCall'[c].pc = "done"
           /\ bookCall'[c].code # "InvalidArgument")
              => IF books[bookCall'[c].sku].present
                 THEN bookCall'[c].err = "ErrBookAlreadyExists" /\ books' = books
                 ELSE /\ bookCall'[c].err = "nil"
                      /\ books' = [books EXCEPT ![bookCall'[c].sku] = bookCall'[c].book]]_vars

\* ---------------------------------------------------------------- C23
\* the fields of a row that a step gave another value
Rewritten(s) == {f \in BookFields : books'[s][f] # books[s][f]}

\* the masked fields in which the request differs from the row UpdateBook read
MaskedAndDiffering(c) ==
    {f \in Range(c.mask) \cap BookFields : c.book[f] # c.existing[f]}

WaitsFor(t, u) ==
    /\ t # u
    /\ tx[t].kind \in {"reserve", "release"}
    /\ tx[t].phase \in {"select", "update"}
    /\ rowLock[tx[t].lines[tx[t].idx].ItemID] = u

\* C24: no two ReserveStock / ReleaseStock transactions over overlapping items
\* are ever each waiting for a row lock the other holds
C24_NoMutualWait ==
    \A t \in TxIds, u \in TxIds : ~(WaitsFor(t, u) /\ WaitsFor(u, t))

\* ---------------------------------------------------------------- C25
\* C25: the consumer starts handling a message only after it acked or nacked
\* the one before, whose transaction is over by then and holds no row lock:
\* two event-driven mutations of the ledger never run at the same time
C25_OneMessageAtATime ==
    [][(cur' # cur /\ cur'.state = "processing")
          => /\ cur.state \in {"none", "acked", "nacked_requeue", "nacked_discard"}
             /\ (cur.state # "none" => Len(log) > 0 /\ log[Len(log)].msg = cur.msg)
             /\ tx[ConsumerTx].phase \in {"idle", "done"}
             /\ \A i \in ItemIDs : rowLock[i] # ConsumerTx]_vars

\* a second message is in its transaction after the first was acked
C25_Witness ==
    /\ Len(log) > 0
    /\ log[1].outcome = "acked"
    /\ cur.state = "processing"
    /\ cur.msg # log[1].msg
    /\ tx[ConsumerTx].phase \in {"select", "update", "commit"}

\* ---------------------------------------------------------------- C26
\* C26: while the database answers every statement, each delivery of a
\* catalog.created or catalog.deleted message ends with an ack or a discarding
\* nack, also that of a catalog.deleted whose item is already deleted; a
\* message put back on the queue here is put back at every redelivery, since
\* the table is the same then, and is never acked or discarded
C26_CatalogMessageSettled ==
    [][(/\ Len(log') = Len(log) + 1
        /\ log'[Len(log')].msg.key \in {"catalog.created", "catalog.deleted"})
          => log'[Len(log')].outcome \in {"acked", "nacked_discard"}]_vars

\* ---------------------------------------------------------------- C27
\* the items a call names
Named(call) == {call.lines[k].ItemID : k \in 1..Len(call.lines)}

\* C27: every step of ReserveStock, ReleaseStock and UpdateStock leaves the
\* set of item_ids and each item's name, category and price as they are, and
\* changes the quantity of no item but those the call names; GetItem and
\* CheckAvailability leave the whole table as it is
C27_OnlyNamedQuantitiesChange ==
    [][/\ \A i \in ItemIDs :
            /\ items'[i].present = items[i].present
            /\ items'[i].name = items[i].name
            /\ items'[i].category = items[i].category
            /\ items'[i].price = items[i].price
            /\ items'[i].quantity # items[i].quantity
                  => \E t \in Calls :
                        /\ tx'[t] # tx[t]
                        /\ tx'[t].kind \in {"reserve", "release", "update"}
                        /\ i \in Named(tx'[t])
       /\ \A t \in Calls :
            (tx'[t] # tx[t] /\ tx'[t].kind \in {"get", "check"})
                => items' = items /\ rowLock' = rowLock]_vars

\* a reservation that names BOOK-001 alone has committed and a GetItem was
\* answered: BOOK-001 has one unit less, BOOK-002 is as it was
C27_Witness ==
    \E t \in Calls, u \in Calls :
        /\ tx[t].kind = "reserve" /\ Succeeded(t) /\ Named(tx[t]) = {"BOOK-001"}
        /\ tx[u].kind = "get" /\ resp[u].status = "OK"
        /\ items["BOOK-001"].quantity < items0["BOOK-001"].quantity
        /\ items["BOOK-002"].present /\ items["BOOK-002"].quantity > 0
        /\ items["BOOK-002"] = items0["BOOK-002"]

\* ---------------------------------------------------------------- C28
\* the step is the UpdateStock call t, which found its item
Updated(t) ==
    /\ tx[t].phase = "idle"
    /\ tx'[t].kind = "update"
    /\ tx'[t].err.kind = "nil"

\* C28: UpdateStock loses no update. Each call returns the quantity its own
\* delta produced from the quantity committed just before it, the event it
\* publishes carries that quantity as previous_quantity, and the quantity of
\* every item is at all times the initial one plus the deltas of the calls
\* made so far (minus what reservations committed)
C28_NoLostUpdate ==
    [][/\ \A t \in Calls :
            Updated(t) =>
               LET item == tx'[t].lines[1].ItemID
                   delta == tx'[t].lines[1].Quantity
               IN /\ items'[item].quantity = items[item].quantity + delta
                  /\ resp'[t].newQuantity = items'[item].quantity
                  /\ \A ev \in published' \ published :
                        /\ ev.ref = item
                        /\ ev.delta = delta
                        /\ ev.new = resp'[t].newQuantity
                        /\ ev.previous = items[item].quantity
       /\ \A i \in ItemIDs :
            items'[i].present
               => items'[i].quantity = items0[i].quantity + ContributionsTo(NConc, i)']_vars

\* three calls changed the stock of BOOK-001 by 2, by -1 and by 2
C28_Witness ==
    /\ \A t \in Calls : tx[t].kind = "update" /\ Succeeded(t)
                          /\ tx[t].lines[1].ItemID = "BOOK-001"
    /\ {tx[t].lines[1].Quantity : t \in Calls} = {2, 0 - 1}
    /\ items["BOOK-001"].quantity = items0["BOOK-001"].quantity + 3
    /\ Cardinality(published) = NConc

\* ---------------------------------------------------------------- C29
\* C29: whatever the line quantities of the request, zero and negative ones
\* included, no step of a ReserveStock raises the quantity of an item and no
\* step of a ReleaseStock lowers one
C29_ReserveLowersReleaseRaises ==
    [][\A t \in TxIds :
          tx'[t] # tx[t]
             => /\ tx[t].kind = "reserve"
                   => \A i \in ItemIDs : items'[i].quantity <= items[i].quantity
                /\ tx[t].kind = "release"
                   => \A i \in ItemIDs : items'[i].quantity >= items[i].quantity]_vars

\* ---------------------------------------------------------------- C30
\* C30: with no publisher every mutation path completes normally: an RPC
\* whose mutation committed has returned success without publishing, a
\* catalog.created or catalog.deleted message is acked once the ledger is
\* changed, and the process does not crash
C30_AbsentPublisherTolerated ==
    publisher = "nil"
       => /\ ~crashed
          /\ published = {}
          /\ \A t \in Calls : Succeeded(t) => resp[t].sent /\ resp[t].success
          /\ \A k \in 1..Len(log) :
                (log[k].msg.key \in {"catalog.created", "catalog.deleted"} /\ log[k].msg.ok
                 /\ items[log[k].msg.sku] # items0[log[k].msg.sku])
                    => log[k].outcome \in {"acked", "nacked_requeue"}

====
